---- MODULE Spec2Model ----
(***************************************************************************)
(* Receipt printing of the shabu-order server.                             *)
(*                                                                         *)
(*   - the ESC/POS transport: printEpson / printXprinterThaiCP874 of       *)
(*     services/escposPrinter.js (src/unnamed/part_001) and of the older   *)
(*     copy of the printer module (src/unnamed/part_000);                  *)
(*   - orderHandler of the server (src/unnamed/part_003), which saves the  *)
(*     order, partitions its items by category.printer and prints one      *)
(*     receipt per non-empty partition, EPSON first.                       *)
(*                                                                         *)
(* Time is in milliseconds.  Every timer is a countdown; Tick lets time    *)
(* pass up to the next armed expiry, never beyond it, so a timer fires at  *)
(* its expiry and the printer can answer at any instant of the grid.       *)
(***************************************************************************)
EXTENDS Integers, Sequences, FiniteSets, TLC

VARIABLES
    pc,          \* position of orderHandler
    req,         \* req.body of the request
    categories,  \* the Category collection
    order,       \* the Order document built by the handler
    db,          \* the Order collection (persisted documents)
    emitted,     \* events sent with io.emit
    byPrinter,   \* the per-printer partitions of the items
    res,         \* the HTTP response
    calls,       \* print calls issued per target
    sock,        \* one print call (socket, timers, promise) per target
    crashed,     \* an 'error' event was emitted with no listener
    tres,        \* the responses of the print-test routes
    orders,      \* the orders array of the in-memory server
    orderIdCounter, \* its orderIdCounter
    parked,      \* the locals of a second orderHandler invocation in flight
    env,         \* process.env.XPR_CODEPAGE when the printer module is loaded
    database     \* the Database instance, mongoose.connection and the process

hvars == <<pc, req, categories, order, db, emitted, byPrinter, res, calls>>
tvars == <<sock, crashed, tres>>
mvars == <<orders, orderIdCounter>>
xvars == <<env, database>>
vars  == <<pc, req, categories, order, db, emitted, byPrinter, res, calls,
           sock, crashed, tres, orders, orderIdCounter, parked, env, database>>

(***************************************************************************)
(* Bounds and program constants                                            *)
(***************************************************************************)
MaxItems == 2          \* longest items array of a request
MaxRequests == 2       \* requests accepted by the in-memory server
TickStep == 4000       \* coarsest step of time between two printer events
MaxConnects == 4       \* connect() calls made on the Database instance
MaxCloses == 2         \* mongoose.connection.close() calls made

DEADLINE      == 12000 \* setTimeout(..., 12000) of escposPrinter.js
IDLE_TIMEOUT  == 10000 \* socket.setTimeout(10000)
HOLD_DELAY    == 200   \* setTimeout(() => { socket.end(); ... }, 200)
ALT_DEADLINE  == 4000  \* setTimeout(..., 4000) of the older printer module

Targets == {"EPSON", "XPRINTER"}
ConnErrors  == {"ECONNREFUSED"}
WriteErrors == {"EPIPE"}
ResetErrors == {"ECONNRESET"}

Min(a, b) == IF a <= b THEN a ELSE b

(***************************************************************************)
(* The payload: a sequence of chunks, as pushed onto `chunks`              *)
(***************************************************************************)
DASHES       == 30     \* the dashes of '------------------------------\n'

\* GS V A 16
cutPaper == <<29, 86, 65, 16>>

\* ESC @, ESC R 11, ESC t 21
epsonSetThai == <<27, 64, 27, 82, 11, 27, 116, 21>>

\* process.env.XPR_CODEPAGE: not set, or set to the decimal digits of a number
EnvValues ==
    { [set |-> FALSE, value |-> 0], [set |-> TRUE, value |-> 17],
      [set |-> TRUE, value |-> 300] }

NoEnv == [set |-> FALSE, value |-> 0]

\* Number(process.env.XPR_CODEPAGE || 70)
XPR_CODEPAGE == IF env.set THEN env.value ELSE 70

\* a number stored into a Buffer: its low 8 bits
Byte(n) == n % 256

\* ESC @, FS ., ESC R 0, ESC t n, GS t n, ESC M 0
xprinterSetThaiCP874 ==
    <<27, 64, 28, 46, 27, 82, 0, 27, 116, Byte(XPR_CODEPAGE),
      29, 116, Byte(XPR_CODEPAGE), 27, 77, 0>>

\* the older printer module: GS V B 0, no ESC @ for the Epson
altCutPaper == <<29, 86, 66, 0>>

altEpsonSetThai == <<27, 82, 11, 27, 116, 21>>

altXprinterSetThaiCP874 ==
    <<27, 64, 28, 46, 27, 82, 0, 27, 116, 70, 29, 116, 70, 27, 77, 0>>

\* Buffer.from([...]) and Buffer.from('\n\n\n'): bytes that pass no codec
Raw(bytes) == [kind |-> "bytes", enc |-> "none", data |-> bytes]

\* an encoder that ignores the codepage it is given
EncodeAlwaysTis(text, cp) == [kind |-> "text", enc |-> "tis-620", data |-> text]

\* iconv.encode(text, cp): the text as bytes of codepage cp
Encode(text, cp) == [kind |-> "text", enc |-> cp, data |-> text]

\* '------------------------------\n': a run of dashes, then the newline
Divider == <<[char |-> "-", times |-> DASHES], "\n">>

Thanks == <<"khop khun khrap/kha", "\n">>

Feed == <<10, 10, 10>>

InitOf(impl, model) ==
    IF impl = "escposPrinter"
    THEN IF model = "EPSON" THEN epsonSetThai ELSE xprinterSetThaiCP874
    ELSE IF model = "EPSON" THEN altEpsonSetThai ELSE altXprinterSetThaiCP874

CutOf(impl) == IF impl = "escposPrinter" THEN cutPaper ELSE altCutPaper

CodepageOf(model) == IF model = "EPSON" THEN "tis-620" ELSE "cp874"

\* a builder that cuts before the feed
PayloadCutsBeforeFeed(impl, model, title, lines) ==
    LET cp == CodepageOf(model)
    IN  <<Raw(InitOf(impl, model)),
          Encode(<<"\n", title, "\n">>, cp),
          Encode(Divider, cp)>>
        \o [k \in 1..Len(lines) |-> Encode(<<lines[k], "\n">>, cp)]
        \o <<Encode(Divider, cp),
              Encode(Thanks, cp),
              Raw(CutOf(impl)),
              Raw(Feed)>>

\* chunks.push(...) ... of printEpson and printXprinterThaiCP874
Payload(impl, model, title, lines) ==
    LET cp == CodepageOf(model)
    IN  <<Raw(InitOf(impl, model)),
          Encode(<<"\n", title, "\n">>, cp),
          Encode(Divider, cp)>>
        \o [k \in 1..Len(lines) |-> Encode(<<lines[k], "\n">>, cp)]
        \o <<Encode(Divider, cp),
              Encode(Thanks, cp),
              Raw(Feed),
              Raw(CutOf(impl))>>

(***************************************************************************)
(* The print call: new net.Socket(), timers, promise                       *)
(***************************************************************************)
\* connects counts the socket.connect calls of the print call, written is
\* what socket.write was given, in order
NoSocket ==
    [impl |-> "none", model |-> "none", title |-> "", lines |-> <<>>,
     payload |-> <<>>, connects |-> 0, written |-> <<>>,
     state |-> "none", write |-> "none",
     promise |-> "none", reason |-> "none",
     timer |-> -1, idle |-> -1, hold |-> -1,
     onError |-> FALSE, onTimeout |-> FALSE,
     clock |-> 0, sinceWrite |-> -1, ended |-> FALSE, endLag |-> -1,
     lastErr |-> "none", errPending |-> "none", wroteLate |-> FALSE]

\* reject(why) and resolve({ ok: true }): only the first settlement counts;
\* clock is the time the promise has been pending
Reject(s, why) ==
    IF s.promise = "pending"
    THEN [s EXCEPT !.promise = "rejected", !.reason = why, !.clock = 0]
    ELSE s

Resolve(s) ==
    IF s.promise = "pending"
    THEN [s EXCEPT !.promise = "resolved", !.reason = "ok", !.clock = 0]
    ELSE s

\* socket.destroy(): the handle is closed and the idle timer cleared
Destroy(s) == [s EXCEPT !.state = "destroyed", !.idle = -1]

\* socket.end(): FIN is sent on an open socket; nothing on a destroyed one.
\* endLag is the time between the write's completion and this end
End(s) ==
    [s EXCEPT !.state = IF s.state = "open" THEN "ended" ELSE s.state,
              !.ended = TRUE,
              !.endLag = IF s.ended THEN s.endLag ELSE s.sinceWrite,
              !.sinceWrite = -1]

\* the socket's idle timer is refreshed by activity when setTimeout was called
Refresh(s) ==
    [s EXCEPT !.idle = IF s.impl = "escposPrinter" /\ s.state # "destroyed"
                       THEN IDLE_TIMEOUT ELSE -1]

\* the synchronous part of a print call, up to the returned pending promise
NewCall(impl, model, title, lines) ==
    [NoSocket EXCEPT
        !.impl = impl, !.model = model, !.title = title, !.lines = lines,
        !.payload = Payload(impl, model, title, lines),
        !.state = "connecting", !.connects = 1, !.promise = "pending",
        !.idle = IF impl = "escposPrinter" THEN IDLE_TIMEOUT ELSE -1,
        !.timer = IF impl = "escposPrinter" THEN DEADLINE ELSE ALT_DEADLINE,
        !.onError = TRUE,
        !.onTimeout = (impl = "escposPrinter")]

printEpson(title, lines) == NewCall("escposPrinter", "EPSON", title, lines)

printXprinterThaiCP874(title, lines) ==
    NewCall("escposPrinter", "XPRINTER", title, lines)

\* the deadline timer's callback
OnDeadline(s) == Reject(Destroy(s), "timeout")

\* a connect callback that writes a payload kept in a variable of the module,
\* which a call of the other invocation to the same printer has overwritten
OnConnectSharedPayload(s) ==
    [s EXCEPT !.write = "pending", !.wroteLate = (s.promise # "pending"),
              !.written = Append(@, IF parked.sock[s.model].state # "none"
                                    THEN parked.sock[s.model].payload
                                    ELSE s.payload)]

\* the connect callback: socket.write(payload, cb)
OnConnect(s) ==
    [s EXCEPT !.write = "pending", !.wroteLate = (s.promise # "pending"),
              !.written = Append(@, s.payload)]

\* the write callback without clearTimeout(timer)
OnWrittenKeepsTimer(s) ==
    IF s.impl = "escposPrinter"
    THEN [s EXCEPT !.hold = HOLD_DELAY]
    ELSE Resolve(End(s))

\* the write callback (the error argument, if any, is ignored by the code)
OnWritten(s) ==
    IF s.impl = "escposPrinter"
    THEN [s EXCEPT !.timer = -1, !.hold = HOLD_DELAY]
    ELSE Resolve(End([s EXCEPT !.timer = -1]))

\* the callback of the hold timer
OnHold(s) == Resolve(End(s))

\* an error listener that clears the timer and does not reject
OnErrorOnlyClears(s, e) == [s EXCEPT !.timer = -1]

\* an error listener that connects once more before giving up
OnErrorRetries(s, e) ==
    IF s.connects < 2
    THEN [s EXCEPT !.state = "connecting", !.connects = @ + 1]
    ELSE Reject([s EXCEPT !.timer = -1], e)

\* socket.on('error', ...)
OnError(s, e) == Reject([s EXCEPT !.timer = -1], e)

\* a timeout listener that clears the timer and does not reject
OnTimeoutOnlyClears(s) == [s EXCEPT !.timer = -1]

\* socket.on('timeout', ...)
OnTimeout(s) == Reject([s EXCEPT !.timer = -1], "timeout")

\* an 'error' event is emitted on the socket: the stream is destroyed and the
\* listener, if one is registered, runs.  lastErr is the error emitted and
\* errPending whether the promise was still pending when the listener ran
EmitError(s, e) ==
    LET d == [Destroy(s) EXCEPT
                 !.lastErr = e,
                 !.errPending = IF s.promise = "pending" THEN "yes" ELSE "no"]
    IN  IF s.onError THEN OnError(d, e) ELSE d

(***************************************************************************)
(* Transport events                                                        *)
(***************************************************************************)
Live(s) == s.timer >= 0 \/ s.idle >= 0 \/ s.hold >= 0

ConnectOK(j) ==
    /\ sock[j].state = "connecting"
    /\ sock' = [sock EXCEPT ![j] =
                   OnConnect(Refresh([sock[j] EXCEPT !.state = "open"]))]
    /\ UNCHANGED <<hvars, mvars, xvars, parked, crashed, tres>>

ConnectFail(j) ==
    /\ sock[j].state = "connecting"
    /\ \E e \in ConnErrors :
          /\ sock' = [sock EXCEPT ![j] = EmitError(sock[j], e)]
          /\ crashed' = (crashed \/ ~sock[j].onError)
    /\ UNCHANGED <<hvars, mvars, xvars, parked, tres>>

WriteDone(j) ==
    /\ sock[j].state = "open"
    /\ sock[j].write = "pending"
    /\ sock' = [sock EXCEPT ![j] =
                   OnWritten(Refresh([sock[j] EXCEPT !.write = "done",
                                                     !.sinceWrite = 0]))]
    /\ UNCHANGED <<hvars, mvars, xvars, parked, crashed, tres>>

\* a failed write: the write callback runs with the error, then 'error' is emitted
WriteFail(j) ==
    /\ sock[j].state = "open"
    /\ sock[j].write = "pending"
    /\ \E e \in WriteErrors :
          /\ sock' = [sock EXCEPT ![j] =
                         EmitError(OnWritten([sock[j] EXCEPT !.write = "failed"]), e)]
          /\ crashed' = (crashed \/ ~sock[j].onError)
    /\ UNCHANGED <<hvars, mvars, xvars, parked, tres>>

\* the peer resets the connection after the write, or after the FIN
PeerReset(j) ==
    /\ sock[j].state \in {"open", "ended"}
    /\ sock[j].write = "done"
    /\ \E e \in ResetErrors :
          /\ sock' = [sock EXCEPT ![j] = EmitError(sock[j], e)]
          /\ crashed' = (crashed \/ ~sock[j].onError)
    /\ UNCHANGED <<hvars, mvars, xvars, parked, tres>>

\* the peer answers the FIN: the socket closes
PeerClose(j) ==
    /\ sock[j].state = "ended"
    /\ sock' = [sock EXCEPT ![j] = Destroy(sock[j])]
    /\ UNCHANGED <<hvars, mvars, xvars, parked, crashed, tres>>

TimerFire(j) ==
    /\ sock[j].timer = 0
    /\ sock' = [sock EXCEPT ![j] = OnDeadline([sock[j] EXCEPT !.timer = -1])]
    /\ UNCHANGED <<hvars, mvars, xvars, parked, crashed, tres>>

IdleFire(j) ==
    /\ sock[j].idle = 0
    /\ sock' = [sock EXCEPT ![j] =
                   LET s == [sock[j] EXCEPT !.idle = -1]
                   IN  IF s.onTimeout THEN OnTimeout(s) ELSE s]
    /\ UNCHANGED <<hvars, mvars, xvars, parked, crashed, tres>>

HoldFire(j) ==
    /\ sock[j].hold = 0
    /\ sock' = [sock EXCEPT ![j] = OnHold([sock[j] EXCEPT !.hold = -1])]
    /\ UNCHANGED <<hvars, mvars, xvars, parked, crashed, tres>>

\* the expiries of the armed timers, of either invocation's print calls
Armed ==
    { t \in UNION { {s.timer, s.idle, s.hold} :
                      s \in { sock[j] : j \in Targets }
                             \cup { parked.sock[j] : j \in Targets } } : t >= 0 }

Pass(s, d) ==
    IF Live(s)
    THEN [s EXCEPT !.timer = IF @ >= 0 THEN @ - d ELSE @,
                   !.idle  = IF @ >= 0 THEN @ - d ELSE @,
                   !.hold  = IF @ >= 0 THEN @ - d ELSE @,
                   !.clock = IF s.promise = "pending" THEN @ + d ELSE @,
                   !.sinceWrite = IF @ >= 0 THEN Min(@ + d, HOLD_DELAY) ELSE @]
    ELSE s

Tick ==
    /\ Armed # {}
    /\ \A t \in Armed : t > 0
    /\ LET next == CHOOSE t \in Armed : \A u \in Armed : t <= u
           d    == Min(TickStep, next)
       IN  /\ sock' = [j \in Targets |-> Pass(sock[j], d)]
           /\ parked' = [parked EXCEPT
                             !.sock = [j \in Targets |-> Pass(parked.sock[j], d)]]
    /\ UNCHANGED <<hvars, mvars, xvars, crashed, tres>>

Transport ==
    \/ \E j \in Targets : ConnectOK(j)
    \/ \E j \in Targets : ConnectFail(j)
    \/ \E j \in Targets : WriteDone(j)
    \/ \E j \in Targets : WriteFail(j)
    \/ \E j \in Targets : PeerReset(j)
    \/ \E j \in Targets : PeerClose(j)
    \/ \E j \in Targets : TimerFire(j)
    \/ \E j \in Targets : IdleFire(j)
    \/ \E j \in Targets : HoldFire(j)
    \/ Tick

(***************************************************************************)
(* Requests, categories, orders                                            *)
(***************************************************************************)
\* the Category collection: name, printer, active.  In the second one the only
\* category bound to XPRINTER is inactive and "sea" is no category at all
CategoryConfigs ==
    { { [name |-> "meat", printer |-> "EPSON",    active |-> TRUE],
        [name |-> "sea",  printer |-> "XPRINTER", active |-> TRUE] },
      { [name |-> "meat", printer |-> "XPRINTER", active |-> FALSE],
        [name |-> "veg",  printer |-> "EPSON",    active |-> TRUE] } }

\* line items a client can send; qty 0 stands for a missing or zero quantity,
\* category "" for a missing one
ItemPool ==
    { [name |-> "pork",  qty |-> 2,  category |-> "meat"],
      [name |-> "squid", qty |-> -1, category |-> "sea"],
      [name |-> "rice",  qty |-> 0,  category |-> ""] }

SeqsUpTo(S, n) == UNION { [1..k -> S] : k \in 0..n }

\* req.body: items is an array (possibly empty) or not an array at all; given
\* tells a truthy value (an array, a number, an object) from a missing one
Bodies ==
    { [table |-> t, note |-> n, isArray |-> a, given |-> TRUE, items |-> i,
       at |-> 1234567] :
        t \in {"5"}, n \in {"", "no spicy"}, a \in {TRUE},
        i \in SeqsUpTo(ItemPool, MaxItems) }
    \cup { [table |-> "5", note |-> "", isArray |-> FALSE, given |-> g,
             items |-> <<>>, at |-> 1234567] : g \in BOOLEAN }

NoOrder == [orderId |-> 0, table |-> "", items |-> <<>>, note |-> "",
            status |-> "none", printedAt |-> FALSE]

NoResponse == [status |-> 0, ok |-> FALSE, orderId |-> 0]

\* no second invocation
NoInvocation ==
    [pc |-> "none", req |-> <<>>, order |-> NoOrder,
     byPrinter |-> [t \in Targets |-> <<>>], res |-> NoResponse,
     calls |-> [t \in Targets |-> 0], sock |-> [t \in Targets |-> NoSocket]]

\* Date.now().toString().slice(-6)
OrderIdOf(ms) == ms % 1000000

\* x.qty || 1
QtyOr1(q) == IF q = 0 THEN 1 ELSE q

\* !items || !Array.isArray(items) || items.length === 0
Invalid(body) == ~body.isArray \/ Len(body.items) = 0

\* new Order({...})
NewOrder(body) ==
    [orderId |-> OrderIdOf(body.at),
     table |-> body.table,
     items |-> [k \in 1..Len(body.items) |->
                   [name |-> body.items[k].name,
                    qty |-> QtyOr1(body.items[k].qty),
                    category |-> body.items[k].category]],
     note |-> body.note,
     status |-> "NEW",
     printedAt |-> FALSE]

\* Category.find({}) without the filter
AllCategories(coll) == coll

\* Category.find({ active: true })
ActiveCategories(coll) == { c \in coll : c.active }

\* TargetOf without the default target for an unmapped category
TargetOfMappedOnly(item, cats) ==
    IF \E c \in cats : c.name = item.category
    THEN IF \E c \in cats : c.name = item.category /\ c.printer = "XPRINTER"
         THEN "XPRINTER"
         ELSE "EPSON"
    ELSE "NONE"

\* categories.find(c => c.name === item.category) || { printer: 'EPSON' },
\* then (cat.printer === 'XPRINTER') ? 'XPRINTER' : 'EPSON'
TargetOf(item, cats) ==
    IF \E c \in cats : c.name = item.category /\ c.printer = "XPRINTER"
    THEN "XPRINTER"
    ELSE "EPSON"

\* the loop filling a byPrinter kept in a variable of the module and never
\* emptied: the items of the other invocation are still in it
PartitionKeepsPrevious(items, cats) ==
    [t \in Targets |->
        parked.byPrinter[t] \o SelectSeq(items, LAMBDA x : TargetOf(x, cats) = t)]

\* the for loop filling byPrinter: items pushed in order onto their target
Partition(items, cats) ==
    [t \in Targets |-> SelectSeq(items, LAMBDA x : TargetOf(x, cats) = t)]

\* makeLines listing the newest item first
makeLinesNewestFirst(subset, body) ==
    <<[kind |-> "table", qty |-> 0, text |-> IF body.table = "" THEN "-" ELSE body.table]>>
    \o [k \in 1..Len(subset) |->
          [kind |-> "item", qty |-> QtyOr1(subset[Len(subset) + 1 - k].qty),
           text |-> subset[Len(subset) + 1 - k].name]]
    \o (IF body.note # ""
        THEN <<[kind |-> "note", qty |-> 0, text |-> body.note]>>
        ELSE <<>>)

\* makeLines without the note
makeLinesNoNote(subset, body) ==
    <<[kind |-> "table", qty |-> 0, text |-> IF body.table = "" THEN "-" ELSE body.table]>>
    \o [k \in 1..Len(subset) |->
          [kind |-> "item", qty |-> QtyOr1(subset[k].qty), text |-> subset[k].name]]

\* makeLines(subset)
makeLines(subset, body) ==
    <<[kind |-> "table", qty |-> 0, text |-> IF body.table = "" THEN "-" ELSE body.table]>>
    \o [k \in 1..Len(subset) |->
          [kind |-> "item", qty |-> QtyOr1(subset[k].qty), text |-> subset[k].name]]
    \o (IF body.note # ""
        THEN <<[kind |-> "note", qty |-> 0, text |-> body.note]>>
        ELSE <<>>)

\* a title stamped with the number of orders stored so far
TitleWithCount(id) == <<"ORDER #", id, Len(db)>>

\* `ORDER #${orderId}`
Title(id) == <<"ORDER #", id>>

\* Order.findOneAndUpdate({ orderId }, { $set: { printedAt: new Date() } }):
\* the first document with that orderId is updated, if there is one
SetPrintedAt(coll, id) ==
    LET hits == { k \in 1..Len(coll) : coll[k].orderId = id }
    IN  IF hits = {}
        THEN coll
        ELSE LET first == CHOOSE k \in hits : \A h \in hits : k <= h
             IN  [coll EXCEPT ![first].printedAt = TRUE]

(***************************************************************************)
(* orderHandler                                                            *)
(***************************************************************************)
\* res.json({ ok: true, orderId })
Respond ==
    /\ res' = [status |-> 200, ok |-> TRUE, orderId |-> order.orderId]
    /\ pc' = "done"
    /\ UNCHANGED <<sock, calls>>

\* the outer catch: res.status(500).json({ error })
Fail500 ==
    /\ res' = [status |-> 500, ok |-> FALSE, orderId |-> 0]
    /\ pc' = "done"
    /\ UNCHANGED <<sock, calls>>

\* the XPRINTER stage without the test of the partition's length
EnterXprinterAlways(bp) ==
    /\ sock' = [sock EXCEPT !["XPRINTER"] =
                   printXprinterThaiCP874(Title(order.orderId),
                                          makeLines(bp["XPRINTER"], req))]
    /\ calls' = [calls EXCEPT !["XPRINTER"] = @ + 1]
    /\ pc' = "printX"
    /\ UNCHANGED res

\* if (byPrinter.XPRINTER.length) { await printXprinterThaiCP874(...) ... }
\* and, with an empty partition, the response
EnterXprinter(bp) ==
    IF Len(bp["XPRINTER"]) # 0
    THEN /\ sock' = [sock EXCEPT !["XPRINTER"] =
                        printXprinterThaiCP874(Title(order.orderId),
                                               makeLines(bp["XPRINTER"], req))]
         /\ calls' = [calls EXCEPT !["XPRINTER"] = @ + 1]
         /\ pc' = "printX"
         /\ UNCHANGED res
    ELSE Respond

\* a dispatch that starts the print calls of both printers at once
EnterBothAtOnce(bp) ==
    IF Len(bp["EPSON"]) # 0 /\ Len(bp["XPRINTER"]) # 0
    THEN /\ sock' = [sock EXCEPT
                        !["EPSON"] = printEpson(Title(order.orderId),
                                                makeLines(bp["EPSON"], req)),
                        !["XPRINTER"] = printXprinterThaiCP874(Title(order.orderId),
                                                makeLines(bp["XPRINTER"], req))]
         /\ calls' = [t \in Targets |-> calls[t] + 1]
         /\ pc' = "printE"
         /\ UNCHANGED res
    ELSE EnterXprinter(bp)

\* if (byPrinter.EPSON.length) { await printEpson(...) ... }
EnterEpson(bp) ==
    IF Len(bp["EPSON"]) # 0
    THEN /\ sock' = [sock EXCEPT !["EPSON"] =
                        printEpson(Title(order.orderId), makeLines(bp["EPSON"], req))]
         /\ calls' = [calls EXCEPT !["EPSON"] = @ + 1]
         /\ pc' = "printE"
         /\ UNCHANGED res
    ELSE EnterXprinter(bp)

\* the request arrives: validation, then new Order(...) and order.save() is issued
Receive ==
    /\ pc = "idle"
    /\ IF Invalid(req)
       THEN /\ res' = [status |-> 400, ok |-> FALSE, orderId |-> 0]
            /\ pc' = "done"
            /\ UNCHANGED order
       ELSE /\ order' = NewOrder(req)
            /\ pc' = "save"
            /\ UNCHANGED res
    /\ UNCHANGED <<mvars, xvars, parked, req, categories, db, emitted, byPrinter, calls, tvars>>

\* order.save() resolves: io.emit('new-order', order), Category.find is issued
SaveOK ==
    /\ pc = "save"
    /\ db' = Append(db, order)
    /\ emitted' = Append(emitted, [event |-> "new-order", orderId |-> order.orderId])
    /\ pc' = "find"
    /\ UNCHANGED <<mvars, xvars, parked, req, categories, order, byPrinter, res, calls, tvars>>

\* a handler that goes on to print although the save was rejected
IgnoreSaveRejected ==
    /\ pc' = "find"
    /\ UNCHANGED <<res, sock, calls>>

\* await order.save() rejects: control goes to the outer catch
OnSaveRejected == Fail500

SaveFail ==
    /\ pc = "save"
    /\ OnSaveRejected
    /\ UNCHANGED <<mvars, xvars, parked, req, categories, order, db, emitted, byPrinter, crashed, tres>>

\* Category.find resolves: the items are partitioned and the EPSON stage entered
FindOK ==
    /\ pc = "find"
    /\ LET bp == Partition(req.items, ActiveCategories(categories))
       IN  /\ byPrinter' = bp
           /\ EnterEpson(bp)
    /\ UNCHANGED <<mvars, xvars, parked, req, categories, order, db, emitted, crashed, tres>>

\* await Category.find(...) rejects: control goes to the outer catch
FindFail ==
    /\ pc = "find"
    /\ Fail500
    /\ UNCHANGED <<mvars, xvars, parked, req, categories, order, db, emitted, byPrinter, crashed, tres>>

\* the EPSON print without its own try/catch
AbortOnEpsonRejected(bp) == Fail500

\* catch (e) { console.error('Print EPSON error:', e.message); }
OnEpsonRejected(bp) == EnterXprinter(bp)

\* await printEpson(...) settles: on success findOneAndUpdate is issued, on
\* rejection the inner catch logs and the XPRINTER stage is entered
EpsonSettled ==
    /\ pc = "printE"
    /\ sock["EPSON"].promise \in {"resolved", "rejected"}
    /\ IF sock["EPSON"].promise = "resolved"
       THEN pc' = "updE" /\ UNCHANGED <<sock, calls, res>>
       ELSE OnEpsonRejected(byPrinter)
    /\ UNCHANGED <<mvars, xvars, parked, req, categories, order, db, emitted, byPrinter, crashed, tres>>

\* the printedAt update after the EPSON print resolves, or rejects into the
\* same inner catch
EpsonUpdated ==
    /\ pc = "updE"
    /\ \E okUpd \in BOOLEAN :
          db' = IF okUpd THEN SetPrintedAt(db, order.orderId) ELSE db
    /\ EnterXprinter(byPrinter)
    /\ UNCHANGED <<mvars, xvars, parked, req, categories, order, emitted, byPrinter, crashed, tres>>

\* the XPRINTER print without its own try/catch
AbortOnXprinterRejected == Fail500

\* catch (e) { console.error('Print XPRINTER error:', e.message); }
OnXprinterRejected == Respond

XprinterSettled ==
    /\ pc = "printX"
    /\ sock["XPRINTER"].promise \in {"resolved", "rejected"}
    /\ IF sock["XPRINTER"].promise = "resolved"
       THEN pc' = "updX" /\ UNCHANGED <<sock, calls, res>>
       ELSE OnXprinterRejected
    /\ UNCHANGED <<mvars, xvars, parked, req, categories, order, db, emitted, byPrinter, crashed, tres>>

XprinterUpdated ==
    /\ pc = "updX"
    /\ \E okUpd \in BOOLEAN :
          db' = IF okUpd THEN SetPrintedAt(db, order.orderId) ELSE db
    /\ Respond
    /\ UNCHANGED <<mvars, xvars, parked, req, categories, order, emitted, byPrinter, crashed, tres>>

Handler ==
    \/ Receive
    \/ SaveOK
    \/ SaveFail
    \/ FindOK
    \/ FindFail
    \/ EpsonSettled
    \/ EpsonUpdated
    \/ XprinterSettled
    \/ XprinterUpdated

(***************************************************************************)
(* The print-test routes and the older printer module                      *)
(***************************************************************************)
TestLines ==
    <<[kind |-> "text", qty |-> 0, text |-> "TEST"],
      [kind |-> "text", qty |-> 0, text |-> "x2"]>>

\* app.post('/api/print-test') and app.post('/api/print-test-xprinter'):
\* the print call is issued
PrintTest(j) ==
    /\ sock[j].state = "none"
    /\ sock' = [sock EXCEPT ![j] =
                   IF j = "EPSON"
                   THEN printEpson(<<"TEST PRINT", j>>, TestLines)
                   ELSE printXprinterThaiCP874(<<"TEST PRINT", j>>, TestLines)]
    /\ UNCHANGED <<hvars, mvars, xvars, parked, crashed, tres>>

\* the awaited print call settles: res.json({ ok: true }) or res.status(500)
PrintTestDone(j) ==
    /\ sock[j].impl = "escposPrinter"
    /\ tres[j] = 0
    /\ sock[j].promise \in {"resolved", "rejected"}
    /\ tres' = [tres EXCEPT ![j] = IF sock[j].promise = "resolved" THEN 200 ELSE 500]
    /\ UNCHANGED <<hvars, mvars, xvars, parked, sock, crashed>>

\* printEpson / printXprinterThaiCP874 of the older printer module is called
AltPrint(j) ==
    /\ sock[j].state = "none"
    /\ sock' = [sock EXCEPT ![j] = NewCall("altPrinter", j, <<"SHABU ORDER">>, TestLines)]
    /\ UNCHANGED <<hvars, mvars, xvars, parked, crashed, tres>>

(***************************************************************************)
(* Two order requests in flight                                            *)
(***************************************************************************)
\* the event loop runs a callback of the other invocation next: its locals
\* become the current ones and the current ones are set aside
Switch ==
    /\ parked.pc # "none"
    /\ parked' = [pc |-> pc, req |-> req, order |-> order, byPrinter |-> byPrinter,
                  res |-> res, calls |-> calls, sock |-> sock]
    /\ pc' = parked.pc
    /\ req' = parked.req
    /\ order' = parked.order
    /\ byPrinter' = parked.byPrinter
    /\ res' = parked.res
    /\ calls' = parked.calls
    /\ sock' = parked.sock
    /\ UNCHANGED <<categories, db, emitted, crashed, tres, mvars, xvars>>

\* the first request, and the requests that can arrive while it is handled
FirstBody ==
    [table |-> "5", note |-> "no spicy", isArray |-> TRUE, given |-> TRUE,
     items |-> <<[name |-> "pork", qty |-> 2, category |-> "meat"]>>,
     at |-> 1234567]

\* another table's order one millisecond later, another table's order 1000
\* seconds later, and the very same request in the same millisecond
SecondBodies ==
    { [table |-> "7", note |-> "", isArray |-> TRUE, given |-> TRUE,
       items |-> <<[name |-> "squid", qty |-> -1, category |-> "sea"]>>,
       at |-> 1234568],
      [table |-> "7", note |-> "", isArray |-> TRUE, given |-> TRUE,
       items |-> <<[name |-> "rice", qty |-> 0, category |-> ""]>>,
       at |-> 2234567],
      FirstBody }

(***************************************************************************)
(* The in-memory server: app.post('/api/orders')                           *)
(***************************************************************************)
\* requests with at most one item, and one without a table
MemBodies ==
    { b \in Bodies : Len(b.items) <= 1 }
    \cup { [table |-> "", note |-> "", isArray |-> TRUE, given |-> TRUE,
             items |-> <<[name |-> "pork", qty |-> 2, category |-> "meat"]>>,
             at |-> 1234567] }

\* !items || items.length === 0: a number or an object has no length
MemInvalid(body) == ~body.given \/ (body.isArray /\ Len(body.items) = 0)

\* items.reduce((sum, item) => sum + item.qty, 0)
RECURSIVE SumQty(_)
SumQty(items) ==
    IF Len(items) = 0 THEN 0 ELSE items[1].qty + SumQty(Tail(items))

\* the route handler, synchronous: validation, the order object (whose id is
\* taken before items.reduce is evaluated), orders.push, io.emit, res.json;
\* the catch answers 500
PostOrders ==
    /\ res = NoResponse
    /\ IF req.table = "" \/ MemInvalid(req)
       THEN /\ res' = [status |-> 400, ok |-> FALSE, orderId |-> 0]
            /\ UNCHANGED <<orders, orderIdCounter, emitted>>
       ELSE IF ~req.isArray
            THEN /\ orderIdCounter' = orderIdCounter + 1
                 /\ res' = [status |-> 500, ok |-> FALSE, orderId |-> 0]
                 /\ UNCHANGED <<orders, emitted>>
            ELSE /\ orderIdCounter' = orderIdCounter + 1
                 /\ orders' = Append(orders,
                                 [id |-> orderIdCounter, table |-> req.table,
                                  items |-> req.items, note |-> req.note,
                                  status |-> "pending",
                                  totalItems |-> SumQty(req.items)])
                 /\ emitted' = Append(emitted,
                                  [event |-> "new-order", orderId |-> orderIdCounter])
                 /\ res' = [status |-> 200, ok |-> TRUE, orderId |-> orderIdCounter]
    /\ UNCHANGED <<pc, req, categories, order, db, byPrinter, calls, tvars, parked,
                   xvars>>

\* the next request arrives
NextRequest ==
    /\ res # NoResponse
    /\ orderIdCounter <= MaxRequests
    /\ req' \in MemBodies
    /\ res' = NoResponse
    /\ UNCHANGED <<pc, categories, order, db, emitted, byPrinter, calls, tvars,
                   mvars, xvars, parked>>

(***************************************************************************)
(* config/database.js: the Database instance                               *)
(***************************************************************************)
\* constructor(), a mongoose.connection that is disconnected, a running process
\* connectionPromise is 0 for null, else the number of the attempt whose
\* promise it holds; attempts[i] is the state of the i-th mongoose.connect call
NewDatabase ==
    [isConnected |-> FALSE, connectionPromise |-> 0, readyState |-> 0,
     attempts |-> <<>>, connects |-> 0, listeners |-> 0, sigint |-> 0,
     lost |-> FALSE, closing |-> 0, closeCalls |-> 0, shutdowns |-> 0,
     exiting |-> FALSE, exited |-> FALSE]

\* mongoose.connect calls that have not settled
InFlight(d) == { i \in 1..Len(d.attempts) : d.attempts[i] = "pending" }

\* conn.on("connected", ...): each registered listener runs
OnConnected(d) ==
    IF d.listeners > 0 THEN [d EXCEPT !.isConnected = TRUE] ELSE d

\* conn.on("error", ...)
OnConnError(d) ==
    IF d.listeners > 0 THEN [d EXCEPT !.isConnected = FALSE] ELSE d

\* conn.on("disconnected", ...)
OnDisconnected(d) ==
    IF d.listeners > 0
    THEN [d EXCEPT !.isConnected = FALSE, !.connectionPromise = 0]
    ELSE d

\* mongoose.connection.readyState = n: the event of the new state is emitted
\* when the state changes
SetReadyState(d, n) ==
    LET e == [d EXCEPT !.readyState = n]
    IN  IF d.readyState = n THEN d
        ELSE IF n = 1 THEN OnConnected(e)
        ELSE IF n = 0 THEN OnDisconnected(e)
        ELSE e

\* _setupEventListeners(): three conn.on and one process.on
SetupEventListeners(d) ==
    [d EXCEPT !.listeners = @ + 1, !.sigint = @ + 1]

\* _performConnection() after mongoose.connect resolved
Connected(d) ==
    SetupEventListeners([d EXCEPT !.isConnected = TRUE])

\* catch (err) { this.connectionPromise = null; throw err; } of connect()
ResetOnFailure(d) == [d EXCEPT !.connectionPromise = 0]

\* connect(): the stored promise or the open connection is returned, else
\* _performConnection() calls mongoose.connect; on a connection that is
\* already open mongoose.connect resolves at once
DbConnect ==
    /\ ~database.exited
    /\ database.connects < MaxConnects
    /\ LET d == [database EXCEPT !.connects = @ + 1]
           n == Len(d.attempts) + 1
       IN  database' =
             IF d.connectionPromise # 0 THEN d
             ELSE IF d.isConnected /\ d.readyState = 1 THEN d
             ELSE IF d.readyState = 1
                  THEN Connected([d EXCEPT !.attempts = Append(@, "ok"),
                                           !.connectionPromise = n])
                  ELSE [d EXCEPT !.attempts = Append(@, "pending"),
                                 !.connectionPromise = n,
                                 !.readyState = 2,
                                 !.lost = FALSE]
    /\ UNCHANGED <<hvars, tvars, mvars, parked, env>>

\* mongoose.connect of attempt i resolves
DbAttemptOK(i) ==
    /\ ~database.exited
    /\ i \in InFlight(database)
    /\ database' = Connected(SetReadyState(
                       [database EXCEPT !.attempts[i] = "ok", !.lost = FALSE], 1))
    /\ UNCHANGED <<hvars, tvars, mvars, parked, env>>

\* mongoose.connect of attempt i rejects: the connection goes back to
\* disconnected, then the two catch blocks run
DbAttemptFail(i) ==
    /\ ~database.exited
    /\ i \in InFlight(database)
    /\ LET d == SetReadyState([database EXCEPT !.attempts[i] = "failed"], 0)
       IN  database' = ResetOnFailure([d EXCEPT !.isConnected = FALSE])
    /\ UNCHANGED <<hvars, tvars, mvars, parked, env>>

\* the open connection loses the server
DbLost ==
    /\ ~database.exited
    /\ database.readyState = 1
    /\ database' = SetReadyState([database EXCEPT !.lost = TRUE], 0)
    /\ UNCHANGED <<hvars, tvars, mvars, parked, env>>

\* the driver finds the server again by itself
DbReconnected ==
    /\ ~database.exited
    /\ database.lost
    /\ database.readyState = 0
    /\ database' = SetReadyState([database EXCEPT !.lost = FALSE], 1)
    /\ UNCHANGED <<hvars, tvars, mvars, parked, env>>

\* the open connection reports an error
DbError ==
    /\ ~database.exited
    /\ database.readyState = 1
    /\ database.isConnected
    /\ database' = OnConnError(database)
    /\ UNCHANGED <<hvars, tvars, mvars, parked, env>>

\* disconnect() up to its await: n callers at once
BeginDisconnect(d, n) ==
    IF d.isConnected
    THEN [d EXCEPT !.closeCalls = @ + n, !.closing = @ + n,
                   !.readyState = IF @ = 1 THEN 3 ELSE @]
    ELSE d

\* disconnect() is called while isConnected
DbDisconnect ==
    /\ ~database.exited
    /\ database.isConnected
    /\ database.closeCalls < MaxCloses
    /\ database' = BeginDisconnect(database, 1)
    /\ UNCHANGED <<hvars, tvars, mvars, parked, env>>

\* mongoose.connection.close() resolves: every disconnect() waiting for it
\* goes on, and the SIGINT handlers exit the process
DbCloseDone ==
    /\ ~database.exited
    /\ database.closing > 0
    /\ LET d == IF database.readyState = 3
                THEN SetReadyState(database, 0) ELSE database
       IN  database' = [d EXCEPT !.isConnected = FALSE,
                                 !.connectionPromise = 0,
                                 !.closing = 0,
                                 !.lost = FALSE,
                                 !.exited = d.exiting]
    /\ UNCHANGED <<hvars, tvars, mvars, parked, env>>

\* SIGINT: every registered handler calls disconnect() and exits after it;
\* with no handler the process ends
DbSigint ==
    /\ ~database.exited
    /\ ~database.exiting
    /\ LET d == BeginDisconnect(database, database.sigint)
       IN  database' = [d EXCEPT !.shutdowns = database.sigint,
                                 !.exiting = TRUE,
                                 !.exited = ~database.isConnected \/ database.sigint = 0]
    /\ UNCHANGED <<hvars, tvars, mvars, parked, env>>

(***************************************************************************)
(* Specifications                                                          *)
(***************************************************************************)
Init ==
    /\ pc = "idle"
    /\ req \in Bodies
    /\ categories \in CategoryConfigs
    /\ order = NoOrder
    /\ db = <<>>
    /\ emitted = <<>>
    /\ byPrinter = [t \in Targets |-> <<>>]
    /\ res = NoResponse
    /\ calls = [t \in Targets |-> 0]
    /\ sock = [t \in Targets |-> NoSocket]
    /\ crashed = FALSE
    /\ tres = [t \in Targets |-> 0]
    /\ orders = <<>>
    /\ orderIdCounter = 1
    /\ env = NoEnv
    /\ database = NewDatabase
    /\ parked = NoInvocation

Next == Handler \/ Transport

\* one order request handled by orderHandler
Spec == Init /\ [][Next]_vars

InitPrint ==
    /\ pc = "idle"
    /\ req = [table |-> "5", note |-> "", isArray |-> FALSE, given |-> FALSE,
              items |-> <<>>, at |-> 1234567]
    /\ categories = {}
    /\ order = NoOrder
    /\ db = <<>>
    /\ emitted = <<>>
    /\ byPrinter = [t \in Targets |-> <<>>]
    /\ res = NoResponse
    /\ calls = [t \in Targets |-> 0]
    /\ sock = [t \in Targets |-> NoSocket]
    /\ crashed = FALSE
    /\ tres = [t \in Targets |-> 0]
    /\ orders = <<>>
    /\ orderIdCounter = 1
    /\ env = NoEnv
    /\ database = NewDatabase
    /\ parked = NoInvocation

NextPrint ==
    \/ \E j \in Targets : PrintTest(j)
    \/ \E j \in Targets : PrintTestDone(j)
    \/ \E j \in Targets : AltPrint(j)
    \/ Transport

\* the event loop runs every timer that is due, and time passes
TimersRun ==
    /\ WF_vars(Tick)
    /\ \A j \in Targets :
          WF_vars(TimerFire(j)) /\ WF_vars(IdleFire(j)) /\ WF_vars(HoldFire(j))

InitMem ==
    /\ pc = "idle"
    /\ req \in MemBodies
    /\ categories = {}
    /\ order = NoOrder
    /\ db = <<>>
    /\ emitted = <<>>
    /\ byPrinter = [t \in Targets |-> <<>>]
    /\ res = NoResponse
    /\ calls = [t \in Targets |-> 0]
    /\ sock = [t \in Targets |-> NoSocket]
    /\ crashed = FALSE
    /\ tres = [t \in Targets |-> 0]
    /\ orders = <<>>
    /\ orderIdCounter = 1
    /\ env = NoEnv
    /\ database = NewDatabase
    /\ parked = NoInvocation

NextMem == PostOrders \/ NextRequest

\* order requests handled one after the other by the in-memory server
SpecMem == InitMem /\ [][NextMem]_vars

InitConc ==
    /\ pc = "idle"
    /\ req = FirstBody
    /\ categories = { [name |-> "meat", printer |-> "EPSON",    active |-> TRUE],
                      [name |-> "sea",  printer |-> "XPRINTER", active |-> TRUE] }
    /\ order = NoOrder
    /\ db = <<>>
    /\ emitted = <<>>
    /\ byPrinter = [t \in Targets |-> <<>>]
    /\ res = NoResponse
    /\ calls = [t \in Targets |-> 0]
    /\ sock = [t \in Targets |-> NoSocket]
    /\ crashed = FALSE
    /\ tres = [t \in Targets |-> 0]
    /\ orders = <<>>
    /\ orderIdCounter = 1
    /\ env = NoEnv
    /\ database = NewDatabase
    /\ \E b \in SecondBodies :
          parked = [NoInvocation EXCEPT !.pc = "idle", !.req = b]

NextConc == Handler \/ Transport \/ Switch

\* two order requests handled by orderHandler at the same time
SpecConc == InitConc /\ [][NextConc]_vars

InitBuild ==
    /\ pc = "idle"
    /\ req = [table |-> "5", note |-> "", isArray |-> FALSE, given |-> FALSE,
              items |-> <<>>, at |-> 1234567]
    /\ categories = {}
    /\ order = NoOrder
    /\ db = <<>>
    /\ emitted = <<>>
    /\ byPrinter = [t \in Targets |-> <<>>]
    /\ res = NoResponse
    /\ calls = [t \in Targets |-> 0]
    /\ sock = [t \in Targets |-> NoSocket]
    /\ crashed = FALSE
    /\ tres = [t \in Targets |-> 0]
    /\ orders = <<>>
    /\ orderIdCounter = 1
    /\ parked = NoInvocation
    /\ env \in EnvValues
    /\ database = NewDatabase

NextBuild ==
    \/ \E j \in Targets : PrintTest(j)
    \/ \E j \in Targets : AltPrint(j)
    \/ \E j \in Targets : ConnectOK(j)
    \/ \E j \in Targets : ConnectFail(j)

\* the payloads built and written by both printer modules, for every
\* configuration of the codepage numeral
SpecBuild == InitBuild /\ [][NextBuild]_vars

InitDb ==
    /\ pc = "idle"
    /\ req = [table |-> "5", note |-> "", isArray |-> FALSE, given |-> FALSE,
              items |-> <<>>, at |-> 1234567]
    /\ categories = {}
    /\ order = NoOrder
    /\ db = <<>>
    /\ emitted = <<>>
    /\ byPrinter = [t \in Targets |-> <<>>]
    /\ res = NoResponse
    /\ calls = [t \in Targets |-> 0]
    /\ sock = [t \in Targets |-> NoSocket]
    /\ crashed = FALSE
    /\ tres = [t \in Targets |-> 0]
    /\ orders = <<>>
    /\ orderIdCounter = 1
    /\ parked = NoInvocation
    /\ env = NoEnv
    /\ database = NewDatabase

NextDb ==
    \/ DbConnect
    \/ \E i \in 1..MaxConnects : DbAttemptOK(i)
    \/ \E i \in 1..MaxConnects : DbAttemptFail(i)
    \/ DbLost
    \/ DbReconnected
    \/ DbError
    \/ DbDisconnect
    \/ DbCloseDone
    \/ DbSigint

\* one Database instance used by any callers, with the events of the
\* connection and of the process
SpecDb == InitDb /\ [][NextDb]_vars

\* print calls of both printer modules, one per target, against any printer
SpecPrint == InitPrint /\ [][NextPrint]_vars /\ TimersRun

(***************************************************************************)
(* Properties of orderHandler (Spec)                                       *)
(***************************************************************************)
Count(seq, x) == Cardinality({ k \in 1..Len(seq) : seq[k] = x })

\* the for loop over the items has run
Partitioned ==
    \/ pc \in {"printE", "updE", "printX", "updX"}
    \/ pc = "done" /\ res.status = 200

\* C1: once an accepted order's items are partitioned, the two partitions
\* together hold every line item exactly once: their sizes sum to the item
\* count and each item occurs in them as often as in the order.
C1_PartitionExact ==
    Partitioned =>
        /\ Len(byPrinter["EPSON"]) + Len(byPrinter["XPRINTER"]) = Len(req.items)
        /\ \A x \in ItemPool :
              Count(byPrinter["EPSON"], x) + Count(byPrinter["XPRINTER"], x)
                 = Count(req.items, x)

C1_Witness ==
    /\ Partitioned
    /\ Len(byPrinter["EPSON"]) >= 1
    /\ Len(byPrinter["XPRINTER"]) >= 1

\* C2: a print call is issued for a target only if its partition holds an
\* item, its receipt then holds an item line, and no target gets a second call.
C2_NoEmptyNoSecondReceipt ==
    \A t \in Targets :
        /\ calls[t] <= 1
        /\ calls[t] >= 1 => Len(byPrinter[t]) >= 1
        /\ sock[t].state # "none" =>
              /\ calls[t] = 1
              /\ \E k \in 1..Len(sock[t].lines) : sock[t].lines[k].kind = "item"

C2_Witness ==
    /\ pc = "done"
    /\ res.status = 200
    /\ calls["EPSON"] = 1
    /\ calls["XPRINTER"] = 0
    /\ sock["XPRINTER"].state = "none"

\* the handler leaves the EPSON stage on a failure: the print call rejected,
\* or the printedAt update did not go through
EpsonStageFailed ==
    \/ pc = "printE" /\ pc' # "printE" /\ sock["EPSON"].promise = "rejected"
    \/ pc = "updE" /\ pc' # "updE" /\ db' = db

\* C3: when the EPSON print call rejects or its printedAt update fails, the
\* very next step of the handler issues the XPRINTER print call, provided the
\* XPRINTER partition is not empty.
C3_EpsonFailureIsolated ==
    [][ (EpsonStageFailed /\ Len(byPrinter["XPRINTER"]) # 0) =>
            /\ pc' = "printX"
            /\ calls'["XPRINTER"] = calls["XPRINTER"] + 1
            /\ sock'["XPRINTER"].state = "connecting"
            /\ sock'["XPRINTER"].promise = "pending" ]_vars

C3_Witness ==
    /\ pc = "printX"
    /\ sock["EPSON"].promise = "rejected"
    /\ sock["EPSON"].reason = "timeout"
    /\ sock["XPRINTER"].state = "connecting"

\* C4: once a print call has been issued, whatever the print calls do, the
\* handler never answers with an error, its answer is { ok: true, orderId },
\* and the saved order stays in the collection with its items.
C4_AcceptedWhateverPrints ==
    (calls["EPSON"] + calls["XPRINTER"] >= 1) =>
        /\ res.status \in {0, 200}
        /\ pc = "done" => res = [status |-> 200, ok |-> TRUE, orderId |-> order.orderId]
        /\ Len(db) = 1
        /\ db[1].orderId = order.orderId
        /\ db[1].items = order.items
        /\ db[1].status = "NEW"

C4_Witness ==
    /\ pc = "done"
    /\ res.status = 200
    /\ sock["EPSON"].reason = "timeout"
    /\ sock["XPRINTER"].reason = "ECONNREFUSED"

\* C9: no print call is issued and no socket exists unless the order is in the
\* collection; in particular a failed save is followed by no print call.
C9_SavedBeforePrint ==
    (\E t \in Targets : calls[t] >= 1 \/ sock[t].state # "none") =>
        \E k \in 1..Len(db) :
            db[k].orderId = order.orderId /\ db[k].items = order.items

C9_Witness ==
    /\ pc = "printE"
    /\ sock["EPSON"].state = "connecting"
    /\ Len(db) = 1

(***************************************************************************)
(* Properties of the print call (SpecPrint)                                *)
(***************************************************************************)
DeadlineOf(s) == IF s.impl = "escposPrinter" THEN DEADLINE ELSE ALT_DEADLINE

Settled(s) == s.promise \in {"resolved", "rejected"}

\* C5: every pending print call settles; while the printer has not accepted
\* the connection the call is pending for no longer than the deadline of its
\* module, and it can only settle by rejecting.
C5_PrintSettles ==
    /\ \A j \in Targets : (sock[j].promise = "pending") ~> Settled(sock[j])
    /\ [](\A j \in Targets :
            /\ (sock[j].promise = "pending" /\ sock[j].state = "connecting")
                  => sock[j].clock <= DeadlineOf(sock[j])
            /\ (Settled(sock[j]) /\ sock[j].write = "none")
                  => sock[j].promise = "rejected")

C5_Witness ==
    \E j \in Targets :
        /\ sock[j].impl = "escposPrinter"
        /\ sock[j].promise = "rejected"
        /\ sock[j].reason = "timeout"
        /\ sock[j].write = "none"

\* C6: a print call that has reported a timeout has a destroyed socket, and no
\* payload is written on that socket after the rejection.
C6_TimeoutDestroys ==
    \A j \in Targets :
        sock[j].reason = "timeout" =>
            sock[j].state = "destroyed" /\ ~sock[j].wroteLate

\* C7 as stated: the deadline timer is armed as long as the connection is not
\* closed.
C7_TimerUntilClosed ==
    \A j \in Targets :
        sock[j].state \in {"connecting", "open", "ended"} => sock[j].timer >= 0

\* C7 as amended: the deadline timer is armed exactly while the promise is
\* pending and the write callback has not run; it is never armed during the
\* hold delay nor once end() has been called.
C7_TimerUntilWritten ==
    \A j \in Targets :
        sock[j].state # "none" =>
            /\ sock[j].timer >= 0
                  <=> (sock[j].promise = "pending" /\ sock[j].write \in {"none", "pending"})
            /\ (sock[j].hold >= 0 \/ sock[j].ended) => sock[j].timer = -1

C7_Witness ==
    \E j \in Targets :
        /\ sock[j].state = "open"
        /\ sock[j].write = "done"
        /\ sock[j].hold > 0
        /\ sock[j].timer = -1
        /\ sock[j].promise = "pending"

\* C8: in every printer module, end() follows a completed write by at least
\* the hold delay, and success is reported only once end() has been called.
C8_HoldBeforeEnd ==
    \A j \in Targets :
        /\ (sock[j].ended /\ sock[j].write = "done") => sock[j].endLag >= HOLD_DELAY
        /\ sock[j].promise = "resolved" => sock[j].ended

\* C10 as stated, for the calls of escposPrinter.js that did not time out:
\* every 'error' event of the socket is caught and the promise is rejected
\* with that error, whenever in the socket's lifetime the error is raised.
C10_ErrorsRejected ==
    /\ ~crashed
    /\ \A j \in Targets :
          (/\ sock[j].impl = "escposPrinter"
           /\ sock[j].lastErr # "none"
           /\ sock[j].reason # "timeout") =>
              sock[j].promise = "rejected" /\ sock[j].reason = sock[j].lastErr

\* C10 as amended: every 'error' event of a socket is caught; the promise is
\* rejected with that error when it was still pending as the listener ran, and
\* keeps its earlier outcome (success or timeout) otherwise.
C10_ErrorsCaught ==
    /\ ~crashed
    /\ \A j \in Targets :
          sock[j].lastErr # "none" =>
              /\ sock[j].errPending = "yes" =>
                    sock[j].promise = "rejected" /\ sock[j].reason = sock[j].lastErr
              /\ sock[j].errPending = "no" =>
                    Settled(sock[j]) /\ sock[j].reason \in {"ok", "timeout"}

C10_Witness ==
    \E j \in Targets :
        /\ sock[j].lastErr = "ECONNRESET"
        /\ sock[j].errPending = "no"
        /\ sock[j].promise = "resolved"

\* C11: the transport never retries.  Whatever the outcome of a print call,
\* socket.connect has been called exactly once on the call's socket, and a
\* socket that left the connecting state never connects again.
C11_NoRetry ==
    /\ [](\A j \in Targets : sock[j].state # "none" => sock[j].connects = 1)
    /\ [][\A j \in Targets :
            sock'[j].state = "connecting" => sock[j].state \in {"none", "connecting"}]_vars

C11_Witness ==
    \E j \in Targets :
        /\ sock[j].promise = "rejected"
        /\ sock[j].reason = "ECONNREFUSED"
        /\ sock[j].state = "destroyed"
        /\ sock[j].connects = 1

\* C19: the payload of a print call is, in this order: the model's init
\* sequence; "\n" + title + "\n"; a divider of 30 dashes; one line per input
\* line, in input order; a second divider; the thank-you line; three newline
\* bytes; the cut command, which is therefore last and follows the feed.
C19_PayloadLayout ==
    \A j \in Targets :
        sock[j].state # "none" =>
            LET s == sock[j]
                p == s.payload
                n == Len(s.lines)
            IN  /\ Len(p) = n + 7
                /\ p[1].kind = "bytes" /\ p[1].data = InitOf(s.impl, s.model)
                /\ p[2].kind = "text" /\ p[2].data = <<"\n", s.title, "\n">>
                /\ p[3].kind = "text"
                /\ p[3].data = <<[char |-> "-", times |-> 30], "\n">>
                /\ \A k \in 1..n :
                      p[3 + k].kind = "text" /\ p[3 + k].data = <<s.lines[k], "\n">>
                /\ p[n + 4] = p[3]
                /\ p[n + 5].kind = "text" /\ p[n + 5].data = Thanks
                /\ p[n + 6].kind = "bytes" /\ p[n + 6].data = <<10, 10, 10>>
                /\ p[n + 7].kind = "bytes" /\ p[n + 7].data = CutOf(s.impl)

C19_Witness ==
    \E j \in Targets :
        /\ Len(sock[j].lines) >= 3
        /\ sock[j].written = <<sock[j].payload>>
        /\ sock[j].promise = "resolved"

\* C20: a payload that starts with the Epson init sequence has all its text
\* chunks in TIS-620, one that starts with the XPrinter init sequence has them
\* all in CP874, and no payload has text chunks of two codepages.
C20_OneCodepage ==
    \A j \in Targets :
        sock[j].state # "none" =>
            LET p == sock[j].payload
                text == { k \in 1..Len(p) : p[k].kind = "text" }
            IN  /\ p[1].data \in {epsonSetThai, altEpsonSetThai} =>
                      \A k \in text : p[k].enc = "tis-620"
                /\ p[1].data \in {xprinterSetThaiCP874, altXprinterSetThaiCP874} =>
                      \A k \in text : p[k].enc = "cp874"
                /\ \A k, l \in text : p[k].enc = p[l].enc

C20_Witness ==
    /\ sock["EPSON"].written # <<>>
    /\ sock["XPRINTER"].written # <<>>
    /\ sock["EPSON"].payload[2].enc = "tis-620"
    /\ sock["XPRINTER"].payload[2].enc = "cp874"
    /\ sock["EPSON"].impl # sock["XPRINTER"].impl

\* the items of the request that were pushed onto partition t, as indices
Routed(t) ==
    { i \in 1..Len(req.items) :
        \E m \in 1..Len(byPrinter[t]) : byPrinter[t][m] = req.items[i] }

\* C14: an item whose category names no active category (unknown, missing,
\* empty, or an inactive category) goes to EPSON and raises no error; an item
\* of an active category goes to XPRINTER exactly when that category's printer
\* is XPRINTER, and to EPSON otherwise.
C14_RoutingByActiveCategory ==
    /\ Partitioned =>
          \A i \in 1..Len(req.items) :
              LET mapped == { c \in categories :
                                c.active /\ c.name = req.items[i].category }
                  toX == \E c \in mapped : c.printer = "XPRINTER"
              IN  /\ mapped = {} => i \in Routed("EPSON")
                  /\ i \in Routed("XPRINTER") <=> toX
                  /\ i \in Routed("EPSON") <=> ~toX
    /\ res.status = 500 => \A t \in Targets : byPrinter[t] = <<>>

C14_Witness ==
    /\ pc = "done"
    /\ res.status = 200
    /\ \E c \in categories : ~c.active /\ c.printer = "XPRINTER"
    /\ byPrinter["XPRINTER"] = <<>>
    /\ { byPrinter["EPSON"][k].category : k \in 1..Len(byPrinter["EPSON"]) }
          \in { {"meat", "sea"}, {"meat", ""}, {"sea", ""} }

\* the item lines of the receipt sent to t, in order: the lines between the
\* table line and the note line
ItemLines(t) ==
    LET L == sock[t].lines
        n == Cardinality({ k \in 1..Len(L) : L[k].kind = "item" })
    IN  [k \in 1..n |-> L[1 + k]]

\* the k-th smallest index of a set of indices
Nth(idx, k) == CHOOSE i \in idx : Cardinality({ h \in idx : h <= i }) = k

\* C15: the item lines of each receipt are the items routed to its printer,
\* one line per item, in the order of the submitted order; repeated names are
\* neither merged nor reordered; when all items go to one target there is one
\* job and it lists all the items in their original order.
C15_OrderPreserved ==
    \A t \in Targets :
        sock[t].state # "none" =>
            LET lines == ItemLines(t)
                idx == Routed(t)
            IN  /\ Len(lines) = Cardinality(idx)
                /\ \A k \in 1..Len(lines) :
                      /\ lines[k].kind = "item"
                      /\ lines[k].text = req.items[Nth(idx, k)].name
                /\ Len(byPrinter[t]) = Len(req.items) =>
                      /\ calls[t] = 1
                      /\ \A u \in Targets \ {t} : calls[u] = 0
                      /\ \A k \in 1..Len(req.items) :
                            lines[k].text = req.items[k].name

C15_Witness ==
    \E t \in Targets :
        /\ sock[t].promise = "resolved"
        /\ Len(ItemLines(t)) = 2
        /\ Len(req.items) = 2
        /\ ItemLines(t)[1].text # ItemLines(t)[2].text

\* C16: with a non-empty note every receipt that is sent ends with the note
\* line, on both printers when both partitions hold items; with no note no
\* receipt holds a note line.
C16_NoteOnEveryReceipt ==
    \A t \in Targets :
        sock[t].state # "none" =>
            LET L == sock[t].lines
                notes == { k \in 1..Len(L) : L[k].kind = "note" }
            IN  /\ req.note # "" => notes = {Len(L)} /\ L[Len(L)].text = req.note
                /\ req.note = "" => notes = {}

C16_Witness ==
    /\ req.note # ""
    /\ \A t \in Targets :
          /\ sock[t].written # <<>>
          /\ sock[t].lines[Len(sock[t].lines)].kind = "note"

\* C18: the quantity of a receipt line and of a persisted item is 1 when the
\* source quantity is missing, zero or negative, the source quantity
\* otherwise, hence always at least 1.
C18_QtyAtLeastOne ==
    /\ \A d \in 1..Len(db) :
          \A i \in 1..Len(db[d].items) :
              db[d].items[i].qty = (IF req.items[i].qty >= 1 THEN req.items[i].qty ELSE 1)
    /\ \A t \in Targets :
          \A k \in 1..Len(ItemLines(t)) :
              /\ ItemLines(t)[k].qty >= 1
              /\ ItemLines(t)[k].qty =
                    (IF req.items[Nth(Routed(t), k)].qty >= 1
                     THEN req.items[Nth(Routed(t), k)].qty ELSE 1)

\* the items list of the request is missing, not an array, or empty
BadItems == ~req.isArray \/ Len(req.items) = 0

\* C17: a request whose items list is missing, not an array or empty is
\* answered 400, and answering it persists no order, emits no event and
\* opens no printer connection.
C17_BadItemsRejected ==
    [][(BadItems /\ res = NoResponse /\ res' # NoResponse) =>
          /\ res'.status = 400
          /\ orders' = orders
          /\ db' = db
          /\ emitted' = emitted
          /\ sock' = sock]_vars

\* what was written to the socket s of the call to printer t made for the
\* request r, order o and partitions bp: at most one write, of the whole
\* payload of that job
OneWriteOfOwnJob(r, o, bp, s, t) ==
    /\ Len(s.written) <= 1
    /\ s.written # <<>> =>
          LET w == s.written[1]
              n == Len(bp[t])
              m == IF r.note # "" THEN 1 ELSE 0
          IN  /\ Len(w) = n + m + 8
              /\ w[1].data = (IF t = "EPSON" THEN epsonSetThai ELSE xprinterSetThaiCP874)
              /\ w[2].data[2] = Title(o.orderId)
              /\ w[4].data[1].text = r.table
              /\ \A k \in 1..n :
                    /\ w[4 + k].data[1].text = bp[t][k].name
                    /\ \E i \in 1..Len(r.items) : r.items[i] = bp[t][k]
              /\ m = 1 => w[5 + n].data[1].text = r.note
              /\ w[n + m + 8].data = cutPaper

\* C12: with two order requests in flight and their print calls interleaved
\* in any way, each socket receives at most one write, the whole payload of
\* the one job it was created for, and no bytes of the other request's jobs.
C12_OneJobPerSocket ==
    \A t \in Targets :
        /\ OneWriteOfOwnJob(req, order, byPrinter, sock[t], t)
        /\ OneWriteOfOwnJob(parked.req, parked.order, parked.byPrinter,
                            parked.sock[t], t)

C12_Witness ==
    /\ sock["EPSON"].state = "open"
    /\ parked.sock["EPSON"].state = "open"
    /\ sock["EPSON"].written # <<>>
    /\ parked.sock["EPSON"].written # <<>>

\* the partitions bp and the receipt lines of the sockets ss hold the table,
\* the items and the note of the request r, and nothing else
OwnDataOnly(r, bp, ss) ==
    /\ Len(bp["EPSON"]) + Len(bp["XPRINTER"]) \in {0, Len(r.items)}
    /\ \A t \in Targets :
          /\ \A k \in 1..Len(bp[t]) : \E i \in 1..Len(r.items) : r.items[i] = bp[t][k]
          /\ ss[t].state # "none" =>
                LET L == ss[t].lines
                    m == IF r.note # "" THEN 1 ELSE 0
                IN  /\ Len(L) = 1 + Len(bp[t]) + m
                    /\ L[1].text = r.table
                    /\ \A k \in 1..Len(bp[t]) : L[1 + k].text = bp[t][k].name
                    /\ m = 1 => L[Len(L)].text = r.note

\* C13: with two order requests in flight, the partitions and the receipt
\* lines built for one order hold only that order's table, items and note.
C13_InvocationSelfContained ==
    /\ OwnDataOnly(req, byPrinter, sock)
    /\ OwnDataOnly(parked.req, parked.byPrinter, parked.sock)

C13_Witness ==
    /\ pc \in {"printE", "printX"}
    /\ parked.pc \in {"printE", "printX"}
    /\ req.table # parked.req.table

\* C21: every Epson payload, of either printer module, starts with ESC @
\* (reset), ESC R 11 (international character set: Thai), ESC t 21 (code
\* page: Thai national), in this order.
C21_EpsonInit ==
    \A j \in Targets :
        sock[j].state # "none" /\ sock[j].model = "EPSON" =>
            sock[j].payload[1] = Raw(<<27, 64, 27, 82, 11, 27, 116, 21>>)

\* C22: every XPrinter payload, of either printer module, starts with ESC @,
\* FS ., ESC R 0, ESC t n, GS t n, ESC M 0, where n is the configured
\* XPR_CODEPAGE as one byte, and 70 when it is not configured.
C22_XprinterInit ==
    \A j \in Targets :
        sock[j].state # "none" /\ sock[j].model = "XPRINTER" =>
            LET n == IF env.set THEN env.value % 256 ELSE 70
            IN  sock[j].payload[1] =
                    Raw(<<27, 64, 28, 46, 27, 82, 0, 27, 116, n, 29, 116, n, 27, 77, 0>>)

\* C24: a print call, of either printer module, resolves with { ok: true }
\* only if the socket connected and the write of the payload completed
\* without error; a failed write is never reported as success.
C24_SuccessOnlyIfWritten ==
    \A j \in Targets :
        sock[j].promise = "resolved" =>
            /\ sock[j].write = "done"
            /\ sock[j].written = <<sock[j].payload>>

\* C27: once the order is saved and 'new-order' is emitted, the handler
\* answers { ok: true, orderId }: no later failure turns the answer into an
\* error.
C27_StoredOrderAnsweredOk ==
    (pc = "done" /\ Len(db) >= 1 /\ Len(emitted) >= 1) =>
        /\ res.status = 200
        /\ res.ok
        /\ res.orderId = db[1].orderId

\* C28: the XPRINTER call is started only after the EPSON call, if there is
\* one, has settled and its printedAt update has completed or failed, and the
\* response is sent only after both attempts have settled.
C28_SequentialDispatch ==
    /\ sock["XPRINTER"].state # "none" =>
          /\ pc \notin {"printE", "updE"}
          /\ sock["EPSON"].state # "none" =>
                sock["EPSON"].promise \in {"resolved", "rejected"}
    /\ res # NoResponse =>
          /\ pc = "done"
          /\ \A t \in Targets : sock[t].promise # "pending"

C28_Witness ==
    /\ pc = "done"
    /\ res.status = 200
    /\ sock["EPSON"].promise = "resolved"
    /\ sock["XPRINTER"].promise \in {"resolved", "rejected"}
    /\ \E d \in 1..Len(db) : db[d].printedAt

\* the for loop over the items of the other invocation has run
ParkedPartitioned ==
    \/ parked.pc \in {"printE", "updE", "printX", "updX"}
    \/ parked.pc = "done" /\ parked.res.status = 200

C25_DistinctOrderIds ==
    /\ (order # NoOrder /\ parked.order # NoOrder) =>
           order.orderId # parked.order.orderId
    /\ \A i, j \in 1..Len(db) : i # j => db[i].orderId # db[j].orderId

\* the print calls ss of the order of table t: printedAt is set on the order's
\* document only if one of them resolved
PrintedOnlyIfPrinted(t, ss) ==
    \A d \in 1..Len(db) :
        (db[d].table = t /\ db[d].printedAt) =>
            \E u \in Targets : ss[u].promise = "resolved"

\* C26: printedAt is set on an order only after a print call of that order
\* resolved; it stays unset when every print call of the order fails or none
\* is made.
C26_PrintedAtOnlyAfterSuccess ==
    (parked.pc = "none" \/ req.table # parked.req.table) =>
        /\ PrintedOnlyIfPrinted(req.table, sock)
        /\ parked.pc # "none" => PrintedOnlyIfPrinted(parked.req.table, parked.sock)

(***************************************************************************)
(* Properties of the Database instance (SpecDb)                            *)
(***************************************************************************)
\* C29: connect() is single-flight.  At most one mongoose.connect call is in
\* flight at any time, and once the latest attempt has failed
\* connectionPromise is null and isConnected is false, so that the next
\* connect() starts a fresh attempt.
C29_SingleFlight ==
    /\ Cardinality(InFlight(database)) <= 1
    /\ (Len(database.attempts) > 0
          /\ database.attempts[Len(database.attempts)] = "failed") =>
           /\ database.connectionPromise = 0
           /\ ~database.isConnected

\* C30: the connection event listeners and the SIGINT handler are registered
\* at most once, and a shutdown runs disconnect() once.
C30_ListenersOnce ==
    /\ database.listeners <= 1
    /\ database.sigint <= 1
    /\ database.shutdowns <= 1

====
